---- MODULE Spec2Model ----
(***************************************************************************)
(* Radviz VizRank (Orange/widgets/visualize/owradviz.py): the state        *)
(* enumerator RadvizVizRank.iterate_states and the pausable ranked search  *)
(* built on it by the VizRankDialog base class.                            *)
(*                                                                         *)
(* States are tuples of 0-based candidate indices, kept here as TLA+       *)
(* sequences (1-based positions, 0-based values).  The empty sequence      *)
(* stands for Python's None wherever a state or nothing is stored.         *)
(***************************************************************************)
EXTENDS Integers, Sequences, FiniteSets, TLC

\* ---- bounds of the model ------------------------------------------------
\* largest candidate count of a dataset offered to the widget
MaxN == 4
\* largest value the user types into the size spin box in the widget model
MaxSize == 4
\* largest candidate count / maximum size drawn for the bare enumerator
EnumMaxN == 5
EnumMaxSize == 5
\* how far past n the top index of a skeleton is followed (the loop of
\* combinations() never ends once the top index has passed n)
MaxOverrun == 0
\* cap on the progress counter in the widget model
MaxProgress == 9
\* cap on the progress counter in the single-dataset model
MaxRunProgress == 18
\* evaluated states per run when the poor datasets are offered too
MaxPoorProgress == 3
\* number of distinct outcomes of the ReliefF pre-ranking that are told apart
NumOrders == 2

\* ---- program constants --------------------------------------------------
\* gui.spin(box, self, "n_attrs", 3, ...) and list(range(3))
MinAttrs == 3
\* self.n_attrs_spin.setMaximum(20)
SpinMaximum == 20
\* cross_val_score(neigh, x, y, cv=3)
CvFolds == 3

None == << >>

Min(a, b) == IF a < b THEN a ELSE b

\* ---- pure helpers of iterate_states ------------------------------------
RECURSIVE factorial(_)
factorial(k) == IF k <= 1 THEN 1 ELSE k * factorial(k - 1)

\* list(range(k))
RangeList(k) == [i \in 1..k |-> i - 1]

Elems(s) == {s[i] : i \in 1..Len(s)}

RemoveAt(s, j) == [i \in 1..(Len(s) - 1) |-> IF i < j THEN s[i] ELSE s[i + 1]]

\* the i-th tuple (i counted from 0) that itertools.permutations(s) yields:
\* permutations come in lexicographic order of the positions of s
RECURSIVE permutations(_, _)
permutations(s, i) ==
    IF Len(s) = 0 THEN << >>
    ELSE LET f == factorial(Len(s) - 1)
             q == i \div f
         IN  <<s[q + 1]>> \o permutations(RemoveAt(s, q + 1), i % f)

\* islice that lets every permutation through
islice_count_all(c) == factorial(Len(c) - 1)

\* islice(..., factorial(len(c) - 1) // 2): how many permutations are taken
islice_count(c) == factorial(Len(c) - 1) \div 2

\* the for-loop of combinations(): "for up, _ in enumerate(s)", from position
\* up (1-based here, so the reset value "up" of the code is up - 1)
RECURSIVE bump(_, _)
bump(s, up) ==
    LET t == [s EXCEPT ![up] = s[up] + 1]
    IN  IF up = Len(s) \/ t[up] < t[up + 1] THEN t
        ELSE bump([t EXCEPT ![up] = up - 1], up + 1)

\* one turn of "while True" in combinations() after the yield: the skeleton
\* that is yielded next, or done when the loop breaks
combinations_samesize(n, s, n_attrs) ==
    LET t == bump(s, 1)
    IN  IF t[Len(t)] = n
        THEN IF Len(t) < n_attrs
             THEN [s |-> RangeList(Len(t)), done |-> FALSE]
             ELSE [s |-> t, done |-> TRUE]
        ELSE [s |-> t, done |-> FALSE]

\* combinations() that restarts a grown skeleton one index up
combinations_shifted(n, s, n_attrs) ==
    LET t == bump(s, 1)
    IN  IF t[Len(t)] = n
        THEN IF Len(t) < n_attrs
             THEN [s |-> [i \in 1..(Len(t) + 1) |-> i], done |-> FALSE]
             ELSE [s |-> t, done |-> TRUE]
        ELSE [s |-> t, done |-> FALSE]

\* combinations() that notices the end of a size one skeleton late
combinations_late(n, s, n_attrs) ==
    LET t == bump(s, 1)
    IN  IF t[Len(t)] = n + 1
        THEN IF Len(t) < n_attrs
             THEN [s |-> RangeList(Len(t) + 1), done |-> FALSE]
             ELSE [s |-> t, done |-> TRUE]
        ELSE [s |-> t, done |-> FALSE]

combinations(n, s, n_attrs) ==
    LET t == bump(s, 1)
    IN  IF t[Len(t)] = n
        THEN IF Len(t) < n_attrs
             THEN [s |-> RangeList(Len(t) + 1), done |-> FALSE]
             ELSE [s |-> t, done |-> TRUE]
        ELSE [s |-> t, done |-> FALSE]

\* A suspended generator of iterate_states: the skeleton s that combinations()
\* last yielded, the number p of permutations of it already emitted, and
\* whether the generator has returned.
NoGen == [s |-> None, p |-> 0, done |-> TRUE]

\* iterate_states(state) up to its first yield: the skeleton is list(range(3))
\* for None, else list(state) as given
iterate_states(state) ==
    [s |-> IF state = None THEN RangeList(MinAttrs) ELSE state,
     p |-> 0, done |-> FALSE]

\* (c[0],) + p
emit(c, i) == <<c[1]>> \o permutations(Tail(c), i)

\* next(generator): the emitted state (None on StopIteration) and the
\* generator afterwards
next_state(g, n, n_attrs) ==
    IF g.done THEN [state |-> None, gen |-> g]
    ELSE IF g.p < islice_count(g.s)
    THEN [state |-> emit(g.s, g.p), gen |-> [g EXCEPT !.p = g.p + 1]]
    ELSE LET c == combinations(n, g.s, n_attrs)
         IN  IF c.done THEN [state |-> None, gen |-> [s |-> c.s, p |-> 0, done |-> TRUE]]
             ELSE [state |-> emit(c.s, 0), gen |-> [s |-> c.s, p |-> 1, done |-> FALSE]]

\* the skeleton is still followed by the model
Followed(g, n) == g.s[Len(g.s)] <= n + MaxOverrun

\* ---- datasets offered on the input signal -------------------------------
\* 1: MaxN - 1 candidate variables; 2: MaxN candidates, two of which have
\* no row in common without a missing value; 3: MaxN - 1 candidates, one of
\* them constant.  The poor datasets are 4: two candidates; 5: MaxN - 1
\* candidates and a single valid row; 6: MaxN - 1 candidates and a target
\* that is missing in every row.  0 stands for "no data".
Datasets == {1, 2, 3}
PoorDatasets == {4, 5, 6}

\* number of primitive variables other than the colour (target) variable
DataN(d) == IF d = 2 THEN MaxN ELSE IF d = 4 THEN MinAttrs - 1 ELSE MaxN - 1

\* len(self.data[self.valid_data]): rows without a missing value
DataRows(d) == IF d = 5 THEN 1 ELSE 2 * MinAttrs

\* np.isnan(self.data.get_column_view(self.attr_color)[0]).all()
DataTargetMissing(d) == d = 6

\* some column of data.X has zero standard deviation
DataConstant(d) == d = 3

\* np.all(np.nan_to_num(np.nanstd(self.data.X, 0)) != 0), a target that is
\* not all-NaN and more than one valid row
DataUsable(d) ==
    /\ ~DataTargetMissing(d)
    /\ DataRows(d) > 1
    /\ ~DataConstant(d)

\* candidate indices whose columns share no complete row
DataClash(d) == IF d = 2 THEN {0, 1} ELSE {}

NoAttrs == [ds |-> 0, n |-> 0, ord |-> 0]

\* _compute_attr_order: the candidates of the master's data, ordered by the
\* ReliefF weights (outcome ord)
compute_attr_order(d, ord) == [ds |-> d, n |-> DataN(d), ord |-> ord]

\* iterate_states that computes the order on every call
iterate_states_reorder(state, old, d, ord) == compute_attr_order(d, ord)

\* iterate_states(state): self.attrs after the call; the order is computed
\* only when state is None
iterate_states_attrs(state, old, d, ord) ==
    IF state = None THEN compute_attr_order(d, ord) ELSE old

\* score given to a state that could not be scored
Worst == 0 * MinAttrs

\* -self._evaluate_projection(x, y): fit and cross-validate on the valid
\* rows; sklearn raises on an empty sample and on fewer samples than folds
evaluate_projection(a, state, rows) ==
    IF rows < CvFolds THEN [raised |-> TRUE, score |-> 0]
    ELSE [raised |-> FALSE,
          score |-> 1 + ((state[1] + 2 * state[2] + 3 * state[3]
                          + Len(state) + a.ord) % 3)]

\* rows left by the mask of radviz(data, attrs)
radviz_rows(a, state) ==
    IF DataClash(a.ds) # {} /\ DataClash(a.ds) \subseteq Elems(state) THEN 0
    ELSE DataRows(a.ds)

\* compute_score(state): [self.attrs[i] for i in state] raises IndexError
\* for an index outside the candidate list; nothing is caught
compute_score(a, state) ==
    IF \E i \in 1..Len(state) : state[i] >= a.n
    THEN [raised |-> TRUE, score |-> 0]
    ELSE LET e == evaluate_projection(a, state, radviz_rows(a, state))
         IN  [raised |-> e.raised, score |-> 0 - e.score]

\* the leaderboard row of a state: its score, or the worst score when
\* compute_score raised, with the variables the indices stand for
scored_row(a, state) ==
    LET c == compute_score(a, state)
    IN  [state |-> state, score |-> IF c.raised THEN Worst ELSE c.score,
         attrs |-> a]

\* OWRadviz._init_vizrank: is_enabled
init_vizrank(d, color) ==
    /\ d # 0
    /\ DataN(d) + 1 > 3
    /\ color # 0
    /\ DataUsable(d)

\* RadvizVizRank.check_preconditions: result and the spin maximum afterwards
check_preconditions(btn, spinmax) ==
    IF ~btn THEN [ok |-> FALSE, spin_max |-> spinmax]
    ELSE [ok |-> TRUE, spin_max |-> SpinMaximum]

\* RadvizVizRank._n_attrs_changed: the button label
n_attrs_changed(na, last, saved) ==
    IF na # last \/ saved = None THEN "Start" ELSE "Continue"

\* before_running that clears the leaderboard only when the size changed
before_running_keepboard(na, last, saved, progress, sc, rm) ==
    LET reset == na # last
    IN  [saved_state |-> IF reset THEN None ELSE saved,
         saved_progress |-> IF reset THEN 0 ELSE progress,
         scores |-> IF reset THEN << >> ELSE sc,
         rank_model |-> IF reset THEN << >> ELSE rm,
         last_run_n_attrs |-> na,
         spin_disabled |-> TRUE]

\* before_running that leaves the spin box enabled
before_running_nolock(na, last, saved, progress, sc, rm) ==
    LET reset == na # last
        saved1 == IF reset THEN None ELSE saved
    IN  [saved_state |-> saved1,
         saved_progress |-> IF reset THEN 0 ELSE progress,
         scores |-> IF saved1 = None THEN << >> ELSE sc,
         rank_model |-> IF saved1 = None THEN << >> ELSE rm,
         last_run_n_attrs |-> na,
         spin_disabled |-> FALSE]

\* before_running that sets the progress back on every start
before_running_zeroprogress(na, last, saved, progress, sc, rm) ==
    LET reset == na # last
        saved1 == IF reset THEN None ELSE saved
    IN  [saved_state |-> saved1,
         saved_progress |-> 0,
         scores |-> IF saved1 = None THEN << >> ELSE sc,
         rank_model |-> IF saved1 = None THEN << >> ELSE rm,
         last_run_n_attrs |-> na,
         spin_disabled |-> TRUE]

\* RadvizVizRank.before_running
before_running(na, last, saved, progress, sc, rm) ==
    LET reset == na # last
        saved1 == IF reset THEN None ELSE saved
        progress1 == IF reset THEN 0 ELSE progress
    IN  [saved_state |-> saved1,
         saved_progress |-> progress1,
         scores |-> IF saved1 = None THEN << >> ELSE sc,
         rank_model |-> IF saved1 = None THEN << >> ELSE rm,
         last_run_n_attrs |-> na,
         spin_disabled |-> TRUE]

\* RadvizVizRank.stopped: n_attrs_spin.setDisabled(False)
stopped == [spin_disabled |-> FALSE]

VARIABLES
    data,              \* OWRadviz.data (dataset id, 0 = None)
    attr_color,        \* OWRadviz.attr_color (0 = None, 1 = the target)
    btn_vizrank,       \* OWRadviz.btn_vizrank.isEnabled()
    dialog_open,       \* the VizRank dialog has been shown
    n_attrs,           \* RadvizVizRank.n_attrs
    last_run_n_attrs,  \* RadvizVizRank.last_run_n_attrs (0 = None)
    spin_max,          \* n_attrs_spin.maximum()
    spin_disabled,     \* not n_attrs_spin.isEnabled()
    button,            \* VizRankDialog.button: text and enabled
    keep_running,      \* VizRankDialog.keep_running
    saved_state,       \* VizRankDialog.saved_state
    saved_progress,    \* VizRankDialog.saved_progress
    scores,            \* VizRankDialog.scores
    rank_model,        \* VizRankDialog.rank_model rows
    attrs,             \* RadvizVizRank.attrs
    vr_attr_color,     \* RadvizVizRank.attr_color
    states,            \* the generator returned by iterate_states
    pending,           \* the state pulled from the generator, not yet scored
    outcome,           \* outcome of the latest compute_score call
    emitted,           \* states emitted by a bare enumeration, in order
    ref,               \* the enumeration continued without interruption
    resumed,           \* a second generator was started from an emitted state
    got                \* latest states of the resumed and the continued pass

widget_vars == <<data, attr_color, btn_vizrank, dialog_open>>
dialog_vars == <<last_run_n_attrs, spin_max, spin_disabled, button,
                 keep_running, saved_state, saved_progress, scores,
                 rank_model, vr_attr_color, pending, outcome>>
enum_vars == <<emitted, ref, resumed, got>>
vars == <<data, attr_color, btn_vizrank, dialog_open, n_attrs,
          last_run_n_attrs, spin_max, spin_disabled, button, keep_running,
          saved_state, saved_progress, scores, rank_model, attrs,
          vr_attr_color, states, pending, outcome, emitted, ref, resumed, got>>

NoOutcome == [state |-> None, unscorable |-> FALSE, raised |-> FALSE,
           score |-> 0, grew |-> 0]
NoGot == [n |-> 0, a |-> None, b |-> None]

\* OWRadviz.__init__ / RadvizVizRank.__init__: both variable models are
\* empty, so the spin range is (3, -1), which Qt widens to (3, 3)
Constructed ==
    /\ data = 0
    /\ attr_color = 0
    /\ btn_vizrank = FALSE
    /\ dialog_open = FALSE
    /\ last_run_n_attrs = 0
    /\ spin_max = IF 0 + 0 - 1 < MinAttrs THEN MinAttrs ELSE 0 + 0 - 1
    /\ spin_disabled = FALSE
    /\ button = [text |-> "Start", enabled |-> TRUE]
    /\ keep_running = FALSE
    /\ saved_state = None
    /\ saved_progress = 0
    /\ scores = << >>
    /\ rank_model = << >>
    /\ vr_attr_color = 0
    /\ pending = None
    /\ outcome = NoOutcome

Init ==
    /\ Constructed
    /\ n_attrs = MinAttrs
    /\ attrs = NoAttrs
    /\ states = NoGen
    /\ emitted = << >>
    /\ ref = NoGen
    /\ resumed = FALSE
    /\ got = NoGot

\* ---- the widget ----------------------------------------------------------
\* VizRankDialog.initialize (the dialog is cleared and the button re-armed),
\* extended by RadvizVizRank.initialize
Initialize ==
    LET c == check_preconditions(btn_vizrank', spin_max)
    IN  /\ keep_running' = FALSE
        /\ saved_state' = None
        /\ saved_progress' = 0
        /\ scores' = << >>
        /\ rank_model' = << >>
        /\ button' = [text |-> "Start", enabled |-> c.ok]
        /\ spin_max' = c.spin_max
        /\ vr_attr_color' = attr_color'
        /\ states' = NoGen
        /\ pending' = None
        /\ UNCHANGED <<n_attrs, last_run_n_attrs, spin_disabled, attrs, outcome>>

\* OWRadviz._init_vizrank, with the new data and colour already in place
InitVizrank ==
    /\ btn_vizrank' = init_vizrank(data', attr_color')
    /\ IF btn_vizrank'
       THEN Initialize
       ELSE UNCHANGED <<n_attrs, last_run_n_attrs, spin_max, spin_disabled,
                        button, keep_running, saved_state, saved_progress,
                        scores, rank_model, attrs, vr_attr_color, states,
                        pending, outcome>>

\* OWRadviz.set_data(data): the colour is the target of the new data
SetData(d) ==
    /\ data' = d
    /\ attr_color' = 1
    /\ InitVizrank
    /\ UNCHANGED <<dialog_open, emitted, ref, resumed, got>>

\* OWRadviz.colors_changed: the user picked colour c
ColorsChanged(c) ==
    /\ data # 0
    /\ c # attr_color
    /\ attr_color' = c
    /\ data' = data
    /\ InitVizrank
    /\ UNCHANGED <<dialog_open, emitted, ref, resumed, got>>

\* the "Suggest features" button shows the dialog
OpenDialog ==
    /\ btn_vizrank
    /\ ~dialog_open
    /\ dialog_open' = TRUE
    /\ UNCHANGED <<data, attr_color, btn_vizrank, n_attrs, attrs, states>>
    /\ UNCHANGED dialog_vars
    /\ UNCHANGED enum_vars

\* the user changes the spin box, whose callback is _n_attrs_changed
NAttrsChanged(v) ==
    /\ dialog_open
    /\ ~spin_disabled
    /\ v # n_attrs
    /\ v >= MinAttrs
    /\ v <= spin_max
    /\ n_attrs' = v
    /\ LET c == check_preconditions(btn_vizrank, spin_max)
       IN  /\ button' = [text |-> n_attrs_changed(v, last_run_n_attrs, saved_state),
                         enabled |-> c.ok]
           /\ spin_max' = c.spin_max
    /\ UNCHANGED <<last_run_n_attrs, spin_disabled, keep_running, saved_state,
                   saved_progress, scores, rank_model, vr_attr_color, pending,
                   outcome, attrs, states>>
    /\ UNCHANGED widget_vars
    /\ UNCHANGED enum_vars

\* start(max_subset_size): VizRankDialog.toggle while stopped; before_running,
\* then the generator is made from the saved state and its first state pulled
Start ==
    /\ dialog_open
    /\ button.enabled
    /\ ~keep_running
    /\ \E ord \in 1..NumOrders :
         LET b == before_running(n_attrs, last_run_n_attrs, saved_state,
                                 saved_progress, scores, rank_model)
             a == iterate_states_attrs(b.saved_state, attrs, data, ord)
             r == next_state(iterate_states(b.saved_state), a.n, n_attrs)
         IN  /\ keep_running' = TRUE
             /\ button' = [text |-> "Pause", enabled |-> TRUE]
             /\ saved_state' = b.saved_state
             /\ saved_progress' = b.saved_progress
             /\ scores' = b.scores
             /\ rank_model' = b.rank_model
             /\ last_run_n_attrs' = b.last_run_n_attrs
             /\ spin_disabled' = b.spin_disabled
             /\ attrs' = a
             /\ states' = r.gen
             /\ pending' = r.state
    /\ UNCHANGED <<n_attrs, spin_max, vr_attr_color, outcome>>
    /\ UNCHANGED widget_vars
    /\ UNCHANGED enum_vars

\* pause(): VizRankDialog.toggle while running; the checkpoint is kept
Pause ==
    /\ keep_running
    /\ keep_running' = FALSE
    /\ button' = [text |-> "Continue", enabled |-> TRUE]
    /\ spin_disabled' = stopped.spin_disabled
    /\ states' = NoGen
    /\ pending' = None
    /\ UNCHANGED <<n_attrs, last_run_n_attrs, spin_max, saved_state,
                   saved_progress, scores, rank_model, vr_attr_color, attrs,
                   outcome>>
    /\ UNCHANGED widget_vars
    /\ UNCHANGED enum_vars

\* cancel(): like pause, and the caller discards the checkpoint
Cancel ==
    /\ keep_running
    /\ keep_running' = FALSE
    /\ button' = [text |-> "Start", enabled |-> TRUE]
    /\ spin_disabled' = stopped.spin_disabled
    /\ saved_state' = None
    /\ states' = NoGen
    /\ pending' = None
    /\ UNCHANGED <<n_attrs, last_run_n_attrs, spin_max, saved_progress, scores,
                   rank_model, vr_attr_color, attrs, outcome>>
    /\ UNCHANGED widget_vars
    /\ UNCHANGED enum_vars

\* step() on a pulled state: score it, add it to the leaderboard, count it,
\* pull the next state and keep that one as the checkpoint
StepEvaluate(cap) ==
    /\ keep_running
    /\ pending # None
    /\ saved_progress < cap
    /\ Followed(states, attrs.n)
    /\ LET c == compute_score(attrs, pending)
           row == scored_row(attrs, pending)
           r == next_state(states, attrs.n, n_attrs)
       IN  /\ scores' = Append(scores, row.score)
           /\ rank_model' = Append(rank_model, row)
           /\ outcome' = [state |-> pending,
                          unscorable |-> radviz_rows(attrs, pending) = 0,
                          raised |-> c.raised,
                          score |-> row.score,
                          grew |-> Len(rank_model') - Len(rank_model)]
           /\ saved_progress' = saved_progress + 1
           /\ saved_state' = r.state
           /\ pending' = r.state
           /\ states' = r.gen
    /\ UNCHANGED <<n_attrs, last_run_n_attrs, spin_max, spin_disabled, button,
                   keep_running, vr_attr_color, attrs>>
    /\ UNCHANGED widget_vars
    /\ UNCHANGED enum_vars

\* step() when no state remains: the run is finished
StepFinish ==
    /\ keep_running
    /\ pending = None
    /\ keep_running' = FALSE
    /\ button' = [text |-> "Finished", enabled |-> FALSE]
    /\ saved_state' = None
    /\ spin_disabled' = stopped.spin_disabled
    /\ states' = NoGen
    /\ UNCHANGED <<n_attrs, last_run_n_attrs, spin_max, saved_progress, scores,
                   rank_model, vr_attr_color, attrs, pending, outcome>>
    /\ UNCHANGED widget_vars
    /\ UNCHANGED enum_vars

Next ==
    \/ \E d \in Datasets : SetData(d)
    \/ \E c \in {0, 1} : ColorsChanged(c)
    \/ OpenDialog
    \/ \E v \in MinAttrs..MaxSize : NAttrsChanged(v)
    \/ Start
    \/ Pause
    \/ Cancel
    \/ StepEvaluate(MaxProgress)
    \/ StepFinish

Spec == Init /\ [][Next]_vars

\* the widget fed the dataset with MaxN candidates only, its search started,
\* paused, resumed and stepped to the end
RunNext ==
    \/ SetData(2)
    \/ OpenDialog
    \/ \E v \in MinAttrs..MaxSize : NAttrsChanged(v)
    \/ Start
    \/ Pause
    \/ StepEvaluate(MaxRunProgress)
    \/ StepFinish

RunSpec == Init /\ [][RunNext]_vars

\* the widget fed every dataset, the poor ones included, with runs of up to
\* MaxPoorProgress evaluated states
PoorNext ==
    \/ \E d \in Datasets \cup PoorDatasets : SetData(d)
    \/ \E c \in {0, 1} : ColorsChanged(c)
    \/ OpenDialog
    \/ \E v \in MinAttrs..MaxSize : NAttrsChanged(v)
    \/ Start
    \/ Pause
    \/ Cancel
    \/ StepEvaluate(MaxPoorProgress)
    \/ StepFinish

PoorSpec == Init /\ [][PoorNext]_vars

\* ---- the enumerator on its own -------------------------------------------
\* iterate_states(None) for n candidates and maximum size m; the spin box
\* takes any m up to its maximum, whatever n is
EnumInit ==
    /\ Constructed
    /\ \E n \in MinAttrs..EnumMaxN : attrs = [ds |-> 0, n |-> n, ord |-> 1]
    /\ n_attrs \in MinAttrs..Min(EnumMaxSize, SpinMaximum)
    /\ states = iterate_states(None)
    /\ emitted = << >>
    /\ ref = NoGen
    /\ resumed = FALSE
    /\ got = NoGot

\* next() on the generator of the first pass
EnumEmit ==
    /\ ~resumed
    /\ ~states.done
    /\ Followed(states, attrs.n)
    /\ LET r == next_state(states, attrs.n, n_attrs)
       IN  /\ states' = r.gen
           /\ emitted' = IF r.state = None THEN emitted
                         ELSE Append(emitted, r.state)
    /\ UNCHANGED <<n_attrs, attrs, ref, resumed, got>>
    /\ UNCHANGED widget_vars
    /\ UNCHANGED dialog_vars

\* the first pass is left where it is and iterate_states(t) is called with
\* the state t it emitted last; the new generator yields its first state
EnumResume ==
    /\ ~resumed
    /\ ~states.done
    /\ emitted # << >>
    /\ LET t == emitted[Len(emitted)]
           r == next_state(iterate_states(t), attrs.n, n_attrs)
       IN  /\ resumed' = TRUE
           /\ ref' = states
           /\ states' = r.gen
           /\ got' = [n |-> 0, a |-> r.state, b |-> t]
    /\ UNCHANGED <<n_attrs, attrs, emitted>>
    /\ UNCHANGED widget_vars
    /\ UNCHANGED dialog_vars

\* next() on the resumed generator and on the one left behind, side by side
EnumResumedEmit ==
    /\ resumed
    /\ ~(states.done /\ ref.done)
    /\ Followed(states, attrs.n)
    /\ Followed(ref, attrs.n)
    /\ LET r == next_state(states, attrs.n, n_attrs)
           q == next_state(ref, attrs.n, n_attrs)
       IN  /\ states' = r.gen
           /\ ref' = q.gen
           /\ got' = [n |-> got.n + 1, a |-> r.state, b |-> q.state]
    /\ UNCHANGED <<n_attrs, attrs, emitted, resumed>>
    /\ UNCHANGED widget_vars
    /\ UNCHANGED dialog_vars

EnumNext ==
    \/ EnumEmit
    \/ EnumResume
    \/ EnumResumedEmit

EnumSpec == EnumInit /\ [][EnumNext]_vars

\* ---- properties ----------------------------------------------------------
Reverse(s) == [i \in 1..Len(s) |-> s[Len(s) + 1 - i]]

\* same first element, rest equal or reversed
SameClass(x, y) ==
    /\ Len(x) = Len(y)
    /\ x[1] = y[1]
    /\ (Tail(x) = Tail(y) \/ Tail(x) = Reverse(Tail(y)))

Choose(n, k) ==
    IF k > n THEN 0 ELSE factorial(n) \div (factorial(k) * factorial(n - k))

RECURSIVE StateCount(_, _)
StateCount(n, m) ==
    IF m < MinAttrs THEN 0
    ELSE StateCount(n, m - 1) + Choose(n, m) * (factorial(m - 1) \div 2)

\* tuples of k distinct indices below n whose first element is the smallest
Anchored(n, k) ==
    {t \in [1..k -> 0..(n - 1)] :
        /\ \A i, j \in 1..k : i # j => t[i] # t[j]
        /\ \A i \in 2..k : t[1] < t[i]}

\* the states an uninterrupted pass emits from generator g on
RECURSIVE RunToEnd(_, _, _)
RunToEnd(g, n, m) ==
    LET r == next_state(g, n, m)
    IN  IF r.state = None THEN {} ELSE {r.state} \cup RunToEnd(r.gen, n, m)

Newest == emitted[Len(emitted)]

\* C1: a run that was paused and resumed (same maximum size m <= n, same
\* candidate order) finishes with the leaderboard of a single uninterrupted
\* run: the same scored states with the same scores.
C1_ResumeEquivalence ==
    (button.text = "Finished" /\ n_attrs <= attrs.n) =>
        Elems(rank_model) =
            {scored_row(attrs, s) :
                s \in RunToEnd(iterate_states(None), attrs.n, n_attrs)}

\* C2: no two states emitted in one pass (3 <= m <= n) have the same first element and
\* remaining elements that are equal or the reverse of each other.
C2_Symmetry ==
    (n_attrs <= attrs.n) =>
    \A i \in 1..(Len(emitted) - 1) : ~SameClass(emitted[i], Newest)

\* C3: a finished fresh enumeration (3 <= m <= n) has emitted exactly one
\* representative of every ordering class of every subset of size 3..m, so
\* StateCount(n, m) states in all, and 4 states for n = 4, m = 3.
C3_Completeness ==
    (~resumed /\ states.done /\ n_attrs <= attrs.n) =>
        /\ \A k \in MinAttrs..n_attrs : \A t \in Anchored(attrs.n, k) :
               Cardinality({i \in 1..Len(emitted) : SameClass(emitted[i], t)}) = 1
        /\ Len(emitted) = StateCount(attrs.n, n_attrs)
        /\ (attrs.n = 4 /\ n_attrs = 3) => Len(emitted) = 4

\* C4: iterate_states(t), for a state t that an earlier pass emitted, emits
\* after t (which it yields again first) exactly the states that follow t in
\* the uninterrupted pass, and stops where that pass stops.
C4_ResumePosition ==
    (resumed /\ n_attrs <= attrs.n) => got.a = got.b

\* C5: a start with a changed maximum size or without a saved state leaves
\* the leaderboard empty and the saved state none and begins at (0,1,2) with
\* a candidate order computed from the current data; any other start leaves
\* saved state, saved progress and leaderboard alone and begins at the saved
\* state.
C5_StartSemantics ==
    [][(~keep_running /\ keep_running') =>
          IF n_attrs # last_run_n_attrs \/ saved_state = None
          THEN /\ scores' = << >>
               /\ rank_model' = << >>
               /\ saved_state' = None
               /\ pending' = <<0, 1, 2>>
               /\ attrs'.ds = data
               /\ attrs'.n = DataN(data)
          ELSE /\ saved_state' = saved_state
               /\ saved_progress' = saved_progress
               /\ scores' = scores
               /\ rank_model' = rank_model
               /\ attrs' = attrs
               /\ pending' = saved_state]_vars

\* a run that was resumed from a saved state of size four
C5_Witness ==
    /\ keep_running
    /\ pending = saved_state
    /\ states.s = pending
    /\ Len(pending) > MinAttrs
    /\ pending[2] > pending[3]
    /\ Len(rank_model) = saved_progress
    /\ saved_progress > 0

\* C6: a fresh enumeration emits finitely many states, no more than there
\* are states of length 3..max_size over n candidates, each of length
\* 3..max_size, for every maximum size the spin box accepts.
C6_FiniteEnumeration ==
    /\ \A i \in 1..Len(emitted) :
           Len(emitted[i]) >= MinAttrs /\ Len(emitted[i]) <= n_attrs
    /\ Len(emitted) <= StateCount(attrs.n, n_attrs)

\* C7: a fresh uninterrupted enumeration with 3 <= m <= n emits no state
\* tuple twice.
C7_NoRepetition ==
    (n_attrs <= attrs.n) =>
        \A i \in 1..(Len(emitted) - 1) : emitted[i] # Newest

\* a fresh enumeration that went through two sizes and ended
C7_Witness ==
    /\ ~resumed
    /\ states.done
    /\ n_attrs <= attrs.n
    /\ n_attrs > MinAttrs
    /\ Len(emitted) = StateCount(attrs.n, n_attrs)

\* C8: the size spin box is disabled in every state of an active run and
\* enabled after every pause, cancel and finish; the size does not change
\* between two steps of a run.
C8_SizeLock ==
    /\ [](keep_running => spin_disabled)
    /\ [][/\ (Pause \/ Cancel \/ StepFinish) => ~spin_disabled'
          /\ (keep_running /\ keep_running') => n_attrs' = n_attrs]_vars

\* a paused run: the spin box is enabled again with the checkpoint kept
C8_Witness ==
    /\ ~keep_running
    /\ button.text = "Continue"
    /\ saved_state # None
    /\ ~spin_disabled
    /\ spin_max > n_attrs

\* C9: scoring a state that has no valid rows does not raise out of
\* compute_score; the state gets the worst score and the leaderboard grows
\* by exactly one entry.
C9_UnscorableTolerance ==
    outcome.unscorable =>
        /\ ~outcome.raised
        /\ outcome.score = Worst
        /\ outcome.grew = 1

\* C10: every leaderboard entry and the saved checkpoint refer to variables
\* of the current dataset, and every set_data clears the leaderboard and
\* discards the checkpoint.
C10_DatasetInvalidation ==
    /\ [](/\ \A i \in 1..Len(rank_model) : rank_model[i].attrs.ds = data
          /\ saved_state # None => attrs.ds = data)
    /\ [][(\E d \in Datasets : SetData(d)) =>
             /\ rank_model' = << >>
             /\ scores' = << >>
             /\ saved_state' = None]_vars

\* the dataset offers too little to search on
PoorData(d) ==
    \/ DataN(d) < MinAttrs
    \/ DataRows(d) < 2
    \/ DataTargetMissing(d)

\* C11: whenever the dataset has fewer than 3 candidate variables, fewer
\* than 2 valid rows or a target that is entirely missing, the search is
\* blocked: the search button is disabled, no run is in progress and none
\* can be started from the dialog.
C11_PreconditionRejection ==
    (data # 0 /\ PoorData(data)) =>
        /\ ~btn_vizrank
        /\ ~keep_running
        /\ ~(dialog_open /\ button.enabled)

\* C12: in every state in which a run can be started, the spin box accepts
\* values from 3 up to at most the number of candidate variables minus one.
C12_SizeBound ==
    (dialog_open /\ button.enabled /\ ~keep_running /\ data # 0) =>
        /\ spin_max <= DataN(data) - 1
        /\ n_attrs >= MinAttrs

\* an operation of the dialog: start, pause, cancel, step or size change
DialogStep ==
    \/ Start
    \/ Pause
    \/ Cancel
    \/ StepEvaluate(MaxProgress)
    \/ StepFinish
    \/ \E v \in MinAttrs..MaxSize : NAttrsChanged(v)

\* C13: among the dialog's operations the saved progress counter goes down
\* only in a start with a changed size, which sets it to zero, discards the
\* saved state and clears the leaderboard; a resuming start, a pause, a
\* cancel, a finish and a size change leave it unchanged, and while the run
\* goes on it never decreases.
C13_ProgressReset ==
    [][DialogStep =>
        /\ (saved_progress' < saved_progress =>
               /\ ~keep_running /\ keep_running'
               /\ n_attrs # last_run_n_attrs
               /\ saved_progress' = 0
               /\ saved_state' = None
               /\ rank_model' = << >>)
        /\ ((~keep_running /\ keep_running' /\ n_attrs = last_run_n_attrs
             /\ saved_state # None) => saved_progress' = saved_progress)
        /\ ((keep_running /\ ~keep_running') =>
               saved_progress' = saved_progress)
        /\ (n_attrs' # n_attrs => saved_progress' = saved_progress)
        /\ ((keep_running /\ keep_running') =>
               saved_progress' >= saved_progress)]_vars

\* a paused run with evaluated states whose size was then changed: the
\* counter still stands and the next start is a fresh one
C13_Witness ==
    /\ ~keep_running
    /\ saved_progress > 0
    /\ saved_state # None
    /\ last_run_n_attrs # 0
    /\ n_attrs # last_run_n_attrs
    /\ button = [text |-> "Start", enabled |-> TRUE]

\* C14: the candidate order changes only in a start that enumerates from
\* scratch (no saved state, first state (0,1,2)); pausing, resuming and
\* stepping leave it unchanged, and every start with a changed maximum size
\* recomputes it from the current data before the first state is emitted.
C14_FixedCandidateOrder ==
    [][/\ (attrs' # attrs =>
              /\ ~keep_running /\ keep_running'
              /\ saved_state' = None
              /\ pending' = RangeList(MinAttrs))
       /\ ((~keep_running /\ keep_running' /\ n_attrs # last_run_n_attrs) =>
              /\ \E ord \in 1..NumOrders :
                    attrs' = compute_attr_order(data, ord)
              /\ pending' = RangeList(MinAttrs))
       /\ ((~keep_running /\ keep_running' /\ n_attrs = last_run_n_attrs
            /\ saved_state # None) => attrs' = attrs)]_vars

\* a run started from scratch after an earlier one, with a size above the
\* default: the order was computed anew and (0,1,2) is the state to score
C14_Witness ==
    /\ keep_running
    /\ saved_state = None
    /\ pending = RangeList(MinAttrs)
    /\ outcome.state # None
    /\ n_attrs > MinAttrs
    /\ last_run_n_attrs = n_attrs
    /\ attrs = compute_attr_order(data, NumOrders)

StrictlyIncreasing(s) == \A i \in 1..(Len(s) - 1) : s[i] < s[i + 1]

\* C15: at every point of an enumeration with maximum size m <= n, fresh or
\* resumed from an emitted state, the skeleton the permutations are taken
\* from is a strictly increasing list of indices.
C15_SkeletonInvariant ==
    (~states.done /\ n_attrs <= attrs.n) => StrictlyIncreasing(states.s)

\* position of t among the permutations of its elements in lexicographic
\* order, counted from 0
RECURSIVE LexRank(_)
LexRank(t) ==
    IF Len(t) <= 1 THEN 0
    ELSE Cardinality({j \in 2..Len(t) : t[j] < t[1]}) * factorial(Len(t) - 1)
         + LexRank(Tail(t))

\* C16: in a fresh pass the j-th state emitted for a skeleton c of size k is
\* c[0] followed by the permutation of c[1:] that comes j-th in
\* lexicographic order, at most (k-1)!/2 states are emitted for c, and the
\* enumerator moves to another skeleton only after exactly (k-1)!/2 of them.
C16_PerSkeletonEmission ==
    /\ []((~resumed /\ ~states.done /\ states.p > 0) =>
            LET c == states.s
                k == Len(c)
            IN  /\ states.p <= factorial(k - 1) \div 2
                /\ Len(Newest) = k
                /\ Newest[1] = c[1]
                /\ Elems(Tail(Newest)) = Elems(Tail(c))
                /\ LexRank(Tail(Newest)) = states.p - 1)
    /\ [][(~resumed' /\ states'.s # states.s) =>
            /\ states.p = factorial(Len(states.s) - 1) \div 2
            /\ (~states'.done => states'.p = 1)]_vars

\* every state of a skeleton of more than three indices has been emitted
C16_Witness ==
    /\ ~resumed
    /\ n_attrs <= attrs.n
    /\ ~states.done
    /\ Len(states.s) > MinAttrs
    /\ states.p = factorial(Len(states.s) - 1) \div 2
    /\ LexRank(Tail(Newest)) = states.p - 1
    /\ Tail(Newest) # Tail(states.s)

\* position of an increasing tuple among the increasing tuples of its
\* length, in the order of the combinatorial successor function
RECURSIVE ColexRank(_)
ColexRank(s) ==
    IF Len(s) = 0 THEN 0
    ELSE ColexRank(SubSeq(s, 1, Len(s) - 1)) + Choose(s[Len(s)], Len(s))

\* the skeletons (as sets) of the emitted states of length k
Visited(k) == {Elems(emitted[i]) : i \in {j \in 1..Len(emitted) :
                                            Len(emitted[j]) = k}}

\* C17: a fresh enumeration starts with (0,1,2); state lengths never go
\* down; a longer state appears only when every one of the C(n,k) skeletons
\* of the current size k has been visited, each skeleton following its
\* predecessor in combinatorial successor order, and the first state of size
\* k + 1 is (0,...,k).
C17_GrowthOrder ==
    /\ []((~resumed /\ emitted # << >>) =>
            /\ emitted[1] = RangeList(MinAttrs)
            /\ \A i \in 1..(Len(emitted) - 1) :
                  Len(emitted[i]) <= Len(emitted[i + 1])
            /\ (Len(emitted) > 1 /\ Len(Newest) > Len(emitted[Len(emitted) - 1])
                  => LET k == Len(emitted[Len(emitted) - 1])
                     IN  /\ Newest = RangeList(k + 1)
                         /\ Visited(k) = {S \in SUBSET (0..(attrs.n - 1)) :
                                             Cardinality(S) = k}))
    /\ [][(~resumed' /\ ~states'.done /\ states'.s # states.s) =>
            IF Len(states'.s) = Len(states.s)
            THEN /\ StrictlyIncreasing(states'.s)
                 /\ ColexRank(states'.s) = ColexRank(states.s) + 1
            ELSE /\ states'.s = RangeList(Len(states.s) + 1)
                 /\ ColexRank(states.s) = Choose(attrs.n, Len(states.s)) - 1
        ]_vars

\* the pass has just grown from size 3 to size 4 with more candidates than
\* that: all skeletons of size 3 are behind it
C17_Witness ==
    /\ ~resumed
    /\ n_attrs <= attrs.n
    /\ attrs.n > MinAttrs + 1
    /\ Len(emitted) = Choose(attrs.n, MinAttrs) + 1
    /\ Newest = RangeList(MinAttrs + 1)

\* C18: in a fresh pass over n candidates with maximum size m, 3 <= m <= n,
\* every emitted state consists of pairwise distinct indices within 0..n-1
\* and its first element is the smallest of them.
C18_StateValidity ==
    (~resumed /\ MinAttrs <= n_attrs /\ n_attrs <= attrs.n) =>
        \A e \in Elems(emitted) :
            /\ \A i, j \in 1..Len(e) : i # j => e[i] # e[j]
            /\ \A i \in 1..Len(e) : 0 <= e[i] /\ e[i] <= attrs.n - 1
            /\ \A i \in 2..Len(e) : e[1] < e[i]

\* a fresh pass with m = n > 3 that has come to its end
C18_Witness ==
    /\ ~resumed
    /\ states.done
    /\ n_attrs = attrs.n
    /\ n_attrs > MinAttrs
    /\ Len(Newest) = n_attrs
    /\ Newest[Len(Newest)] # attrs.n - 1

\* C19: after any sequence of start, pause, cancel, finish and size changes
\* the saved progress counter equals the number of entries evaluated for the
\* current leaderboard; in particular it is zero whenever a start has just
\* cleared the leaderboard.
C19_ProgressConsistency ==
    saved_progress = Len(rank_model)

====
